---- MODULE Spec2Model ----
(***************************************************************************)
(* Model of the three validation exercises of Python-M09:                  *)
(*   ex0/space_station.py, ex1/alien_contact.py, ex2/space_crew.py.        *)
(* Each exercise is a separate script; a behaviour of the model is a run   *)
(* of one of them (prog).  An action is one try/except block of a main()   *)
(* applied to caller-supplied field values, or one call of a helper.       *)
(*                                                                         *)
(* Conventions.  Optional values are sequences: <<>> is "not supplied" /   *)
(* None, <<v>> is the value v.  Floats are fixed-point, in tenths          *)
(* (85.5 is 855).  Strings are TLA+ strings; s[:n] and s[n:] are SubSeq.   *)
(***************************************************************************)
EXTENDS Integers, Sequences, FiniteSets, TLC

VARIABLES prog, op, input, result, out

vars == <<prog, op, input, result, out>>

\* ------------------------------------------------------------ bounds

\* Longest crew list enumerated for SpaceMission construction.
MaxCrew == 3

\* Longest crew list enumerated for the crew aggregate helpers.
MaxRoster == 4

\* ------------------------------------------------------------ helpers

None == <<>>

Some(v) == <<v>>

\* value of an optional, or its default when not supplied
OrDefault(o, d) == IF o = None THEN d ELSE o[1]

Min(a, b) == IF a < b THEN a ELSE b

\* Python s[:n]
Prefix(s, n) == IF Len(s) = 0 THEN "" ELSE SubSeq(s, 1, Min(n, Len(s)))

\* Python s[n:]
DropPrefix(s, n) == IF Len(s) <= n THEN "" ELSE SubSeq(s, n + 1, Len(s))

RECURSIVE Repeat(_, _)
Repeat(s, n) == IF n = 0 THEN "" ELSE s \o Repeat(s, n - 1)

\* str() of a float held in tenths: 855 -> "85.5", 920 -> "92.0"
FloatStr(t) == ToString(t \div 10) \o "." \o ToString(t % 10)

\* str() of a bound given in tenths, printed as the integer literal of Field()
BoundStr(t) == ToString(t \div 10)

\* all sequences over S of length 0..n
RECURSIVE SeqsUpTo(_, _)
SeqsUpTo(S, n) ==
    IF n = 0 THEN {<<>>}
    ELSE LET shorter == SeqsUpTo(S, n - 1)
         IN  shorter \cup {Append(s, x) : s \in {t \in shorter : Len(t) = n - 1}, x \in S}

\* ------------------------------------------------ field constraints

Err(type, loc, msg) == [type |-> type, loc |-> loc, msg |-> msg]

Plural(n) == IF n = 1 THEN "" ELSE "s"

\* Field(min_length=lo, max_length=hi) on a str
StrField(loc, v, lo, hi) ==
    IF Len(v) < lo
    THEN <<Err("string_too_short", loc,
               "String should have at least " \o ToString(lo) \o " character" \o Plural(lo))>>
    ELSE IF Len(v) > hi
    THEN <<Err("string_too_long", loc,
               "String should have at most " \o ToString(hi) \o " character" \o Plural(hi))>>
    ELSE <<>>

\* Field(ge=lo, le=hi) on an int
IntField(loc, v, lo, hi) ==
    IF v < lo
    THEN <<Err("greater_than_equal", loc,
               "Input should be greater than or equal to " \o ToString(lo))>>
    ELSE IF v > hi
    THEN <<Err("less_than_equal", loc,
               "Input should be less than or equal to " \o ToString(hi))>>
    ELSE <<>>

\* Field(ge=lo, le=hi) on a float; v, lo, hi in tenths
FloatField(loc, v, lo, hi) ==
    IF v < lo
    THEN <<Err("greater_than_equal", loc,
               "Input should be greater than or equal to " \o BoundStr(lo))>>
    ELSE IF v > hi
    THEN <<Err("less_than_equal", loc,
               "Input should be less than or equal to " \o BoundStr(hi))>>
    ELSE <<>>

\* str | None = Field(default=None, max_length=hi)
OptStrField(loc, o, hi) ==
    IF o # None /\ Len(o[1]) > hi
    THEN <<Err("string_too_long", loc,
               "String should have at most " \o ToString(hi) \o " character" \o Plural(hi))>>
    ELSE <<>>

\* a field typed by an Enum
EnumField(loc, v, members, msg) ==
    IF v \in members THEN <<>> ELSE <<Err("enum", loc, msg)>>

\* List[...] = Field(min_length=lo, max_length=hi)
ListField(loc, v, lo, hi) ==
    IF Len(v) < lo
    THEN <<Err("too_short", loc,
               "List should have at least " \o ToString(lo) \o " item" \o Plural(lo)
               \o " after validation, not " \o ToString(Len(v)))>>
    ELSE IF Len(v) > hi
    THEN <<Err("too_long", loc,
               "List should have at most " \o ToString(hi) \o " item" \o Plural(hi)
               \o " after validation, not " \o ToString(Len(v)))>>
    ELSE <<>>

\* a ValueError raised by a model validator, as the ValidationError reports it
ValueErrorPrefix == "Value error, "

ValueErr(error) == <<Err("value_error", "", ValueErrorPrefix \o error)>>

\* outcome of a constructor call: the record, or the ValidationError's errors()
Built(schema, rec) == [ok |-> TRUE, schema |-> schema, value |-> <<rec>>, errors |-> <<>>]

Raised(schema, errors) == [ok |-> FALSE, schema |-> schema, value |-> <<>>, errors |-> errors]

NoResult == [ok |-> FALSE, schema |-> "", value |-> <<>>, errors |-> <<>>]

Separator == "========================================"

\* ------------------------------------------------ ex0: SpaceStation

SpaceStationFieldErrors(i) ==
    StrField("station_id", i.station_id, 3, 10)
    \o StrField("name", i.name, 1, 50)
    \o IntField("crew_size", i.crew_size, 1, 20)
    \o FloatField("power_level", i.power_level, 0, 1000)
    \o FloatField("oxygen_level", i.oxygen_level, 0, 1000)
    \o OptStrField("notes", i.notes, 200)

\* SpaceStation(**i), constructed at time now
SpaceStation(i, now) ==
    LET errors == SpaceStationFieldErrors(i)
    IN  IF errors # <<>> THEN Raised("SpaceStation", errors)
        ELSE Built("SpaceStation",
                   [station_id       |-> i.station_id,
                    name             |-> i.name,
                    crew_size        |-> i.crew_size,
                    power_level      |-> i.power_level,
                    oxygen_level     |-> i.oxygen_level,
                    last_maintenance |-> OrDefault(i.last_maintenance, now),
                    is_operational   |-> OrDefault(i.is_operational, TRUE),
                    notes            |-> i.notes])

display_station(station) ==
    << "ID: " \o station.station_id,
       "Name: " \o station.name,
       "Crew: " \o ToString(station.crew_size),
       "Power: " \o FloatStr(station.power_level),
       "Oxygen: " \o FloatStr(station.oxygen_level),
       "Status: " \o (IF station.is_operational THEN "Non " ELSE "") \o "Operational" >>

\* what one try/except block of ex0's main prints for outcome r
StationHandler(r) ==
    IF r.ok
    THEN <<Separator, "Valid station created:">> \o display_station(r.value[1])
    ELSE <<Separator, "Expected validation error:", r.errors[1].msg>>

Clock == {1, 2}

StationInputs ==
    [station_id       : {"IS", "ISS001", "ISS00000001"},
     name             : {"", "International Space Station"},
     crew_size        : {0, 6, 20, 25},
     power_level      : {-1, 855, 1001},
     oxygen_level     : {923, 1001},
     last_maintenance : {None, Some(0)},
     is_operational   : {None, Some(TRUE), Some(FALSE)},
     notes            : {None, Some("nominal"), Some(Repeat("x", 201))}]

\* one try/except block of ex0's main, on caller-supplied field values
TryStation ==
    /\ prog = "ex0"
    /\ op = "idle"
    /\ \E i \in StationInputs, now \in Clock :
          /\ op' = "SpaceStation"
          /\ input' = i
          /\ result' = SpaceStation(i, now)
          /\ out' = StationHandler(result')
    /\ UNCHANGED prog

\* ------------------------------------------------ ex1: AlienContact

ContactType == {"radio", "visual", "physical", "telepathic"}

ContactTypeMsg == "Input should be 'radio', 'visual', 'physical' or 'telepathic'"

AlienContactFieldErrors(i) ==
    StrField("contact_id", i.contact_id, 5, 15)
    \o StrField("location", i.location, 3, 100)
    \o EnumField("contact_type", i.contact_type, ContactType, ContactTypeMsg)
    \o FloatField("signal_strength", i.signal_strength, 0, 100)
    \o IntField("duration_minutes", i.duration_minutes, 1, 1440)
    \o IntField("witness_count", i.witness_count, 1, 100)

\* the record with is_verified defaulting to True
AlienContactRecord_VerifiedByDefault(i, now) ==
    [contact_id       |-> i.contact_id,
     timestamp        |-> OrDefault(i.timestamp, now),
     location         |-> i.location,
     contact_type     |-> i.contact_type,
     signal_strength  |-> i.signal_strength,
     duration_minutes |-> i.duration_minutes,
     witness_count    |-> i.witness_count,
     message_received |-> i.message_received,
     is_verified      |-> OrDefault(i.is_verified, TRUE)]

\* the record pydantic hands to the "after" validator: defaults applied
AlienContactRecord(i, now) ==
    [contact_id       |-> i.contact_id,
     timestamp        |-> OrDefault(i.timestamp, now),
     location         |-> i.location,
     contact_type     |-> i.contact_type,
     signal_strength  |-> i.signal_strength,
     duration_minutes |-> i.duration_minutes,
     witness_count    |-> i.witness_count,
     message_received |-> i.message_received,
     is_verified      |-> OrDefault(i.is_verified, FALSE)]

\* check_model written with independent ifs: the last broken rule's error is kept
AlienContact_check_model_LastWins(self) ==
    IF self.signal_strength > 70 /\ self.message_received = None
    THEN "Strong signals (> 7.0) should include received messages"
    ELSE IF self.contact_type = "telepathic" /\ self.witness_count < 3
    THEN "telepathic contact requires at least 3 witnesses"
    ELSE IF self.contact_type = "physical" /\ ~self.is_verified
    THEN "physical contact reports must be verified"
    ELSE IF Len(self.contact_id) < 2 \/ Prefix(self.contact_id, 2) # "AC"
    THEN "Contact ID must start with 'AC' (Alien Contact)"
    ELSE ""

\* AlienContact.check_model: the error it raises, "" when it returns self
AlienContact_check_model(self) ==
    LET condition1 == ~self.is_verified
        condition2 == self.witness_count < 3
    IN  IF Len(self.contact_id) < 2 \/ Prefix(self.contact_id, 2) # "AC"
        THEN "Contact ID must start with 'AC' (Alien Contact)"
        ELSE IF self.contact_type = "physical" /\ condition1
        THEN "physical contact reports must be verified"
        ELSE IF self.contact_type = "telepathic" /\ condition2
        THEN "telepathic contact requires at least 3 witnesses"
        ELSE IF self.signal_strength > 70 /\ self.message_received = None
        THEN "Strong signals (> 7.0) should include received messages"
        ELSE ""

\* the constructor with check_model run before the field constraints are reported
AlienContact_RulesFirst(i, now) ==
    LET errors == AlienContactFieldErrors(i)
        self   == AlienContactRecord(i, now)
    IN  IF AlienContact_check_model(self) # ""
        THEN Raised("AlienContact", ValueErr(AlienContact_check_model(self)))
        ELSE IF errors # <<>> THEN Raised("AlienContact", errors)
        ELSE Built("AlienContact", self)

\* AlienContact(**i), constructed at time now
AlienContact(i, now) ==
    LET errors == AlienContactFieldErrors(i)
        self   == AlienContactRecord(i, now)
    IN  IF errors # <<>> THEN Raised("AlienContact", errors)
        ELSE IF AlienContact_check_model(self) # ""
        THEN Raised("AlienContact", ValueErr(AlienContact_check_model(self)))
        ELSE Built("AlienContact", self)

\* convert_duration with the hour plural taken from "duration > 120"
convert_duration_PluralAbove120(duration) ==
    LET hours == IF duration >= 60
                 THEN ToString(duration \div 60) \o " hour"
                      \o (IF duration > 120 THEN "s" ELSE "")
                      \o (IF duration % 60 # 0 THEN " " ELSE "")
                 ELSE ""
    IN  IF duration % 60 = 0 THEN hours
        ELSE hours \o ToString(duration % 60) \o " minute"
             \o (IF duration % 60 # 1 THEN "s" ELSE "")

convert_duration(duration) ==
    LET hours == IF duration >= 60
                 THEN ToString(duration \div 60) \o " hour"
                      \o (IF duration >= 120 THEN "s" ELSE "")
                      \o (IF duration % 60 # 0 THEN " " ELSE "")
                 ELSE ""
    IN  IF duration % 60 = 0 THEN hours
        ELSE hours \o ToString(duration % 60) \o " minute"
             \o (IF duration % 60 # 1 THEN "s" ELSE "")

display_contact(contact) ==
    << "ID: " \o contact.contact_id,
       "Type: ContactType." \o contact.contact_type,
       "Location: " \o contact.location,
       "Signal: " \o FloatStr(contact.signal_strength) \o "/10",
       "Duration: " \o convert_duration(contact.duration_minutes),
       "Witness: " \o ToString(contact.witness_count) >>
    \o (IF contact.message_received # None
        THEN <<"Message: '" \o contact.message_received[1] \o "'">>
        ELSE <<>>)

\* what one try/except block of ex1's main prints for outcome r
ContactHandler(r) ==
    IF r.ok
    THEN <<Separator, "Valid contact report:">> \o display_contact(r.value[1])
    ELSE <<Separator, "Expected validation error:", DropPrefix(r.errors[1].msg, 13)>>

ContactInputs ==
    [contact_id       : {"AC_2024_001", "XX_2024_001", "AC1", "XX_2024_001_LONG"},
     timestamp        : {None, Some(0)},
     location         : {"LA", "Area 51, Nevada"},
     contact_type     : ContactType \cup {"smoke"},
     signal_strength  : {42, 70, 85, 101},
     duration_minutes : {0, 45, 90},
     witness_count    : {0, 1, 3},
     message_received : {None, Some("Greetings from Zeta Reticuli")},
     is_verified      : {None, Some(TRUE), Some(FALSE)}]

\* one try/except block of ex1's main, on caller-supplied field values
TryContact ==
    /\ prog = "ex1"
    /\ op = "idle"
    /\ \E i \in ContactInputs, now \in Clock :
          /\ op' = "AlienContact"
          /\ input' = i
          /\ result' = AlienContact(i, now)
          /\ out' = ContactHandler(result')
    /\ UNCHANGED prog

Durations == 1..1440

\* a call of convert_duration on its own
ConvertDuration ==
    /\ prog = "ex1"
    /\ op = "idle"
    /\ \E d \in Durations :
          /\ op' = "convert_duration"
          /\ input' = d
          /\ out' = <<convert_duration(d)>>
    /\ result' = NoResult
    /\ UNCHANGED prog

\* ------------------------------------- ex2: CrewMember, SpaceMission

Rank == {"cadet", "officer", "lieutenant", "captain", "commander"}

RankMsg == "Input should be 'cadet', 'officer', 'lieutenant', 'captain' or 'commander'"

CrewMemberFieldErrors(i) ==
    StrField("member_id", i.member_id, 3, 10)
    \o StrField("name", i.name, 2, 50)
    \o EnumField("rank", i.rank, Rank, RankMsg)
    \o IntField("age", i.age, 18, 80)
    \o StrField("specialization", i.specialization, 3, 30)
    \o IntField("years_experience", i.years_experience, 0, 50)

\* CrewMember(**i)
CrewMember(i) ==
    LET errors == CrewMemberFieldErrors(i)
    IN  IF errors # <<>> THEN Raised("CrewMember", errors)
        ELSE Built("CrewMember",
                   [member_id        |-> i.member_id,
                    name             |-> i.name,
                    rank             |-> i.rank,
                    age              |-> i.age,
                    specialization   |-> i.specialization,
                    years_experience |-> i.years_experience,
                    is_active        |-> OrDefault(i.is_active, TRUE)])

\* "for person in crew: if <test>: n += 1" over the tests' outcomes, in list order
RECURSIVE CountTrue(_)
CountTrue(flags) ==
    IF flags = <<>> THEN 0
    ELSE (IF Head(flags) THEN 1 ELSE 0) + CountTrue(Tail(flags))

not_min_rank(crew) ==
    LET IsCommander(person) == person.rank = "commander"
        IsCaptain(person)   == person.rank # "commander" /\ person.rank = "captain"
        nb_commander == CountTrue([k \in 1..Len(crew) |-> IsCommander(crew[k])])
        nb_captain   == CountTrue([k \in 1..Len(crew) |-> IsCaptain(crew[k])])
    IN  nb_commander = 0 /\ nb_captain = 0

RECURSIVE active_crew(_)
active_crew(crew) ==
    IF crew = <<>> THEN TRUE
    ELSE IF ~Head(crew).is_active THEN FALSE
    ELSE active_crew(Tail(crew))

\* Python's true division n / d, kept exact as a fraction
TrueDiv(n, d) == [num |-> n, den |-> d]

\* k >= q for an integer k and a fraction q with a positive denominator
GeFraction(k, q) == k * q.den >= q.num

\* len(crew) // 2 in place of len(crew) / 2
HalfOfCrew_FloorDiv(crew) == TrueDiv(Len(crew) \div 2, 1)

\* the right-hand side of experience_crew's comparison: len(crew) / 2
HalfOfCrew(crew) == TrueDiv(Len(crew), 2)

experience_crew(crew) ==
    LET IsExperienced(person) == person.years_experience > 5
        nb_experience == CountTrue([k \in 1..Len(crew) |-> IsExperienced(crew[k])])
    IN  GeFraction(nb_experience, HalfOfCrew(crew))

SpaceMissionFieldErrors(i) ==
    StrField("mission_id", i.mission_id, 5, 15)
    \o StrField("mission_name", i.mission_name, 3, 100)
    \o StrField("destination", i.destination, 3, 50)
    \o IntField("duration_days", i.duration_days, 1, 3650)
    \o ListField("crew", i.crew, 1, 12)
    \o FloatField("budget_millions", i.budget_millions, 10, 100000)

\* the record with mission_status defaulting to "active"
SpaceMissionRecord_ActiveByDefault(i, now) ==
    [mission_id      |-> i.mission_id,
     mission_name    |-> i.mission_name,
     destination     |-> i.destination,
     lauch_date      |-> OrDefault(i.lauch_date, now),
     duration_days   |-> i.duration_days,
     crew            |-> i.crew,
     mission_status  |-> OrDefault(i.mission_status, "active"),
     budget_millions |-> i.budget_millions]

\* the record pydantic hands to the "after" validator: defaults applied
SpaceMissionRecord(i, now) ==
    [mission_id      |-> i.mission_id,
     mission_name    |-> i.mission_name,
     destination     |-> i.destination,
     lauch_date      |-> OrDefault(i.lauch_date, now),
     duration_days   |-> i.duration_days,
     crew            |-> i.crew,
     mission_status  |-> OrDefault(i.mission_status, "planned"),
     budget_millions |-> i.budget_millions]

\* check_model written with independent ifs: the last broken rule's error is kept
SpaceMission_check_model_LastWins(self) ==
    IF ~active_crew(self.crew)
    THEN "All crew members must be active"
    ELSE IF self.duration_days > 365 /\ ~experience_crew(self.crew)
    THEN "Long missions (> 365 days) " \o "need 50% experienced crew (5+ years)"
    ELSE IF not_min_rank(self.crew)
    THEN "Must have at least one Commander or Captain"
    ELSE IF Len(self.mission_id) = 0 \/ Prefix(self.mission_id, 1) # "M"
    THEN "Mission ID must start with 'M'"
    ELSE ""

\* SpaceMission.check_model: the error it raises, "" when it returns self
SpaceMission_check_model(self) ==
    IF Len(self.mission_id) = 0 \/ Prefix(self.mission_id, 1) # "M"
    THEN "Mission ID must start with 'M'"
    ELSE IF not_min_rank(self.crew)
    THEN "Must have at least one Commander or Captain"
    ELSE IF self.duration_days > 365 /\ ~experience_crew(self.crew)
    THEN "Long missions (> 365 days) " \o "need 50% experienced crew (5+ years)"
    ELSE IF ~active_crew(self.crew)
    THEN "All crew members must be active"
    ELSE ""

\* the constructor whose validator computes its error and returns self without raising
SpaceMission_NoRaise(i, now) ==
    LET errors == SpaceMissionFieldErrors(i)
        self   == SpaceMissionRecord(i, now)
    IN  IF errors # <<>> THEN Raised("SpaceMission", errors)
        ELSE Built("SpaceMission", self)

\* SpaceMission(**i), i.crew a list of CrewMember records, constructed at time now
SpaceMission(i, now) ==
    LET errors == SpaceMissionFieldErrors(i)
        self   == SpaceMissionRecord(i, now)
    IN  IF errors # <<>> THEN Raised("SpaceMission", errors)
        ELSE IF SpaceMission_check_model(self) # ""
        THEN Raised("SpaceMission", ValueErr(SpaceMission_check_model(self)))
        ELSE Built("SpaceMission", self)

\* f"{person.rank}": the member's value before Python 3.12, Rank.<name> from 3.12 on
RankFormats == {"value", "name"}

FormatRank(rank, fmt) == IF fmt = "name" THEN "Rank." \o rank ELSE rank

RECURSIVE CrewLines(_, _)
CrewLines(crew, fmt) ==
    IF crew = <<>> THEN <<>>
    ELSE <<"- " \o Head(crew).name \o " (" \o FormatRank(Head(crew).rank, fmt) \o ") - "
           \o Head(crew).specialization>> \o CrewLines(Tail(crew), fmt)

display_mission(mission, fmt) ==
    << "Mission: " \o mission.mission_name,
       "ID: " \o mission.mission_id,
       "Destination: " \o mission.destination,
       "Duration: " \o ToString(mission.duration_days) \o " day"
           \o (IF mission.duration_days > 1 THEN "s" ELSE ""),
       "Budget: $" \o FloatStr(mission.budget_millions) \o "M",
       "Crew size: " \o ToString(Len(mission.crew)),
       "Crew members:" >>
    \o CrewLines(mission.crew, fmt)

\* the crew=[CrewMember(...), ...] list display of main: members are constructed in
\* list order and the first ValidationError leaves the list (and the mission) unbuilt
RECURSIVE BuildCrew(_)
BuildCrew(raws) ==
    IF raws = <<>> THEN [ok |-> TRUE, crew |-> <<>>, raised |-> NoResult]
    ELSE LET first == CrewMember(Head(raws))
         IN  IF ~first.ok THEN [ok |-> FALSE, crew |-> <<>>, raised |-> first]
             ELSE LET rest == BuildCrew(Tail(raws))
                  IN  IF ~rest.ok THEN rest
                      ELSE [ok |-> TRUE, crew |-> <<first.value[1]>> \o rest.crew,
                            raised |-> NoResult]

\* the constructor calls inside one try block of ex2's main
MissionAttempt(i, now) ==
    LET built == BuildCrew(i.crew)
    IN  IF ~built.ok THEN built.raised
        ELSE SpaceMission([i EXCEPT !.crew = built.crew], now)

\* what one try/except block of ex2's main prints for outcome r
MissionHandler(r, fmt) ==
    IF r.ok
    THEN <<Separator, "Valid mission created:">> \o display_mission(r.value[1], fmt)
    ELSE <<Separator, "Expected validation error:", DropPrefix(r.errors[1].msg, 13)>>

Person(name, rank, spec, age, years, active) ==
    [member_id |-> "Person005", name |-> name, rank |-> rank, age |-> age,
     specialization |-> spec, years_experience |-> years, is_active |-> active]

\* the crews of main's two missions
MainCrew1 ==
    << Person("Sarah Connor", "commander", "Mission Command", 37, 5, None),
       Person("John Smith", "lieutenant", "Navigation", 63, 17, None),
       Person("Alice Johnson", "officer", "Engineering", 58, 20, None) >>

MainCrew2 ==
    << Person("Sarah Connor", "cadet", "Mission Command", 37, 5, None),
       Person("John Smith", "lieutenant", "Navigation", 63, 17, None),
       Person("Alice Johnson", "officer", "Engineering", 58, 21, None) >>

Commander == Person("Sarah Connor", "commander", "Mission Command", 37, 17, None)

RECURSIVE Copies(_, _)
Copies(x, n) == IF n = 0 THEN <<>> ELSE <<x>> \o Copies(x, n - 1)

\* crew members a caller may list: in bounds, and out of bounds
CrewPool ==
    { Person("Sarah Connor", r, "Mission Command", 37, y, a) :
        r \in {"cadet", "captain", "commander"}, y \in {5, 6}, a \in {None, Some(FALSE)} }
    \cup { Person("Sarah Connor", "commander", "Mission Command", 17, 6, None),
           Person("S", "admiral", "Mission Command", 37, 51, None) }

\* every field varied, over a few crews
MissionFieldInputs ==
    [mission_id      : {"M2024_MARS", "X2024_MARS", "M1"},
     mission_name    : {"MC", "Mars Colony Establishment"},
     destination     : {"M", "Mars"},
     lauch_date      : {None, Some(0)},
     duration_days   : {0, 365, 900, 3651},
     crew            : {<<>>, MainCrew1, MainCrew2, Copies(Commander, 12), Copies(Commander, 13)},
     mission_status  : {None, Some("active")},
     budget_millions : {5, 25000}]

\* every crew up to MaxCrew members, over the fields the rules read
MissionCrewInputs ==
    [mission_id      : {"M2024_MARS", "X2024_MARS"},
     mission_name    : {"Mars Colony Establishment"},
     destination     : {"Mars"},
     lauch_date      : {None},
     duration_days   : {365, 900},
     crew            : SeqsUpTo(CrewPool, MaxCrew),
     mission_status  : {None},
     budget_millions : {25000}]

MissionInputs == MissionFieldInputs \cup MissionCrewInputs

\* one try/except block of ex2's main, on caller-supplied field values
TryMission ==
    /\ prog = "ex2"
    /\ op = "idle"
    /\ \E i \in MissionInputs, now \in Clock, fmt \in RankFormats :
          /\ op' = "SpaceMission"
          /\ input' = i
          /\ result' = MissionAttempt(i, now)
          /\ out' = MissionHandler(result', fmt)
    /\ UNCHANGED prog

\* CrewMember records that differ in one field only
Member(rank, years, active) ==
    [member_id |-> "Person005", name |-> "Sarah Connor", rank |-> rank, age |-> 37,
     specialization |-> "Mission Command", years_experience |-> years, is_active |-> active]

RankRosters == SeqsUpTo({Member(r, 6, TRUE) : r \in Rank}, MaxRoster)

ActiveRosters == SeqsUpTo({Member("officer", 6, a) : a \in BOOLEAN}, MaxRoster)

ExperienceRosters == SeqsUpTo({Member("officer", y, TRUE) : y \in {0, 5, 6, 50}}, MaxRoster)

\* a call of not_min_rank on its own
NotMinRank ==
    /\ prog = "ex2"
    /\ op = "idle"
    /\ \E crew \in RankRosters :
          /\ op' = "not_min_rank"
          /\ input' = crew
          /\ out' = <<not_min_rank(crew)>>
    /\ result' = NoResult
    /\ UNCHANGED prog

\* a call of active_crew on its own
ActiveCrew ==
    /\ prog = "ex2"
    /\ op = "idle"
    /\ \E crew \in ActiveRosters :
          /\ op' = "active_crew"
          /\ input' = crew
          /\ out' = <<active_crew(crew)>>
    /\ result' = NoResult
    /\ UNCHANGED prog

\* a call of experience_crew on its own
ExperienceCrew ==
    /\ prog = "ex2"
    /\ op = "idle"
    /\ \E crew \in ExperienceRosters :
          /\ op' = "experience_crew"
          /\ input' = crew
          /\ out' = <<experience_crew(crew)>>
    /\ result' = NoResult
    /\ UNCHANGED prog

\* ------------------------------------------------------ specification

Programs == {"ex0", "ex1", "ex2"}

Init ==
    /\ prog \in Programs
    /\ op = "idle"
    /\ input = <<>>
    /\ result = NoResult
    /\ out = <<>>

\* the try block (or the helper call) is over: its locals are gone
Return ==
    /\ op # "idle"
    /\ op' = "idle"
    /\ input' = <<>>
    /\ result' = NoResult
    /\ out' = <<>>
    /\ UNCHANGED prog

Next ==
    \/ TryStation
    \/ TryContact
    \/ ConvertDuration
    \/ TryMission
    \/ NotMinRank
    \/ ActiveCrew
    \/ ExperienceCrew
    \/ Return

Spec == Init /\ [][Next]_vars

\* ------------------------------------------------------------ claims
\* What the specification says of each schema, stated on the caller's input and
\* independently of the constructors above.

Locs(errors) == [k \in 1..Len(errors) |-> errors[k].loc]

Types(errors) == {errors[k].type : k \in 1..Len(errors)}

StartsWith(s, p) == Len(s) >= Len(p) /\ SubSeq(s, 1, Len(p)) = p

\* an optional field as the specification reads it: the value, or the stated default
Supplied(o, default) == IF o = <<>> THEN default ELSE o[1]

\* the one message a failed attempt printed
Surfaced == out[3]

Failed == ~result.ok /\ result.value = <<>> /\ Len(out) = 3

StationFieldOrder ==
    <<"station_id", "name", "crew_size", "power_level", "oxygen_level", "notes">>

StationFieldBad(i, f) ==
    CASE f = "station_id"   -> Len(i.station_id) \notin 3..10
      [] f = "name"         -> Len(i.name) \notin 1..50
      [] f = "crew_size"    -> i.crew_size \notin 1..20
      [] f = "power_level"  -> i.power_level \notin 0..1000
      [] f = "oxygen_level" -> i.oxygen_level \notin 0..1000
      [] f = "notes"        -> i.notes # <<>> /\ Len(i.notes[1]) > 200

StationBadFields(i) == SelectSeq(StationFieldOrder, LAMBDA f : StationFieldBad(i, f))

ContactFieldOrder ==
    <<"contact_id", "location", "contact_type", "signal_strength", "duration_minutes",
      "witness_count">>

ContactFieldBad(i, f) ==
    CASE f = "contact_id"       -> Len(i.contact_id) \notin 5..15
      [] f = "location"         -> Len(i.location) \notin 3..100
      [] f = "contact_type"     -> i.contact_type \notin {"radio", "visual", "physical", "telepathic"}
      [] f = "signal_strength"  -> i.signal_strength \notin 0..100
      [] f = "duration_minutes" -> i.duration_minutes \notin 1..1440
      [] f = "witness_count"    -> i.witness_count \notin 1..100

ContactBadFields(i) == SelectSeq(ContactFieldOrder, LAMBDA f : ContactFieldBad(i, f))

\* the Contact rules of the specification, in its order, on a record
ContactRuleBroken(c, k) ==
    CASE k = 1 -> ~StartsWith(c.contact_id, "AC")
      [] k = 2 -> c.contact_type = "physical" /\ ~c.is_verified
      [] k = 3 -> c.contact_type = "telepathic" /\ c.witness_count < 3
      [] k = 4 -> c.signal_strength > 70 /\ c.message_received = <<>>

ContactRuleMsg(k) ==
    CASE k = 1 -> "Contact ID must start with 'AC' (Alien Contact)"
      [] k = 2 -> "physical contact reports must be verified"
      [] k = 3 -> "telepathic contact requires at least 3 witnesses"
      [] k = 4 -> "Strong signals (> 7.0) should include received messages"

ContactRecordBrokenRules(c) == {k \in 1..4 : ContactRuleBroken(c, k)}

\* the rules an input breaks: is_verified is false unless supplied
ContactBrokenRules(i) ==
    ContactRecordBrokenRules([i EXCEPT !.is_verified = Supplied(i.is_verified, FALSE)])

MemberFieldOrder ==
    <<"member_id", "name", "rank", "age", "specialization", "years_experience">>

MemberFieldBad(m, f) ==
    CASE f = "member_id"        -> Len(m.member_id) \notin 3..10
      [] f = "name"             -> Len(m.name) \notin 2..50
      [] f = "rank"             -> m.rank \notin {"cadet", "officer", "lieutenant", "captain", "commander"}
      [] f = "age"              -> m.age \notin 18..80
      [] f = "specialization"   -> Len(m.specialization) \notin 3..30
      [] f = "years_experience" -> m.years_experience \notin 0..50

MemberBadFields(m) == SelectSeq(MemberFieldOrder, LAMBDA f : MemberFieldBad(m, f))

\* the members of a crew that are out of bounds, by position
BadMembers(crew) == {k \in 1..Len(crew) : MemberBadFields(crew[k]) # <<>>}

MissionFieldOrder ==
    <<"mission_id", "mission_name", "destination", "duration_days", "crew", "budget_millions">>

MissionFieldBad(i, f) ==
    CASE f = "mission_id"      -> Len(i.mission_id) \notin 5..15
      [] f = "mission_name"    -> Len(i.mission_name) \notin 3..100
      [] f = "destination"     -> Len(i.destination) \notin 3..50
      [] f = "duration_days"   -> i.duration_days \notin 1..3650
      [] f = "crew"            -> Len(i.crew) \notin 1..12
      [] f = "budget_millions" -> i.budget_millions \notin 10..100000

MissionBadFields(i) == SelectSeq(MissionFieldOrder, LAMBDA f : MissionFieldBad(i, f))

Experienced(crew) == {k \in 1..Len(crew) : crew[k].years_experience > 5}

\* the Mission rules of the specification, in its order, on a record
MissionRuleBroken(c, k) ==
    CASE k = 1 -> ~StartsWith(c.mission_id, "M")
      [] k = 2 -> \A n \in 1..Len(c.crew) : c.crew[n].rank \notin {"commander", "captain"}
      [] k = 3 -> c.duration_days > 365 /\ 2 * Cardinality(Experienced(c.crew)) < Len(c.crew)
      [] k = 4 -> \E n \in 1..Len(c.crew) : ~c.crew[n].is_active

MissionRuleMsg(k) ==
    CASE k = 1 -> "Mission ID must start with 'M'"
      [] k = 2 -> "Must have at least one Commander or Captain"
      [] k = 3 -> "Long missions (> 365 days) need 50% experienced crew (5+ years)"
      [] k = 4 -> "All crew members must be active"

MissionRecordBrokenRules(c) == {k \in 1..4 : MissionRuleBroken(c, k)}

\* the rules an input breaks: each member is active unless is_active is supplied
MissionBrokenRules(i) ==
    MissionRecordBrokenRules(
        [i EXCEPT !.crew = [k \in 1..Len(i.crew) |->
            [i.crew[k] EXCEPT !.is_active = Supplied(i.crew[k].is_active, TRUE)]]])

First(S) == CHOOSE k \in S : \A j \in S : k <= j

RuleMessages == {ContactRuleMsg(k) : k \in 1..4} \cup {MissionRuleMsg(k) : k \in 1..4}

ContactInBounds == op = "AlienContact" /\ ContactBadFields(input) = <<>>

MissionInBounds ==
    op = "SpaceMission" /\ BadMembers(input.crew) = {} /\ MissionBadFields(input) = <<>>

\* C1: an AlienContact whose fields are all in bounds fails with exactly the message
\* of the first broken rule in the order id-prefix, physical-verified,
\* telepathic-witnesses, strong-signal-message, and succeeds iff no rule is broken.
C1_ContactFirstRuleWins ==
    ContactInBounds =>
        IF ContactBrokenRules(input) = {}
        THEN result.ok
        ELSE /\ Failed
             /\ Len(result.errors) = 1
             /\ result.errors[1].type = "value_error"
             /\ Surfaced = ContactRuleMsg(First(ContactBrokenRules(input)))

\* a telepathic contact with an "AC" id, one witness and a strong signal without a
\* message: rules 3 and 4 are broken, rule 3's message is printed
C1_Witness ==
    /\ ContactInBounds
    /\ input.contact_type = "telepathic"
    /\ input.witness_count = 1
    /\ ContactBrokenRules(input) = {3, 4}
    /\ Surfaced = "telepathic contact requires at least 3 witnesses"

\* C2: a SpaceMission whose fields and crew members are all in bounds fails with
\* exactly the message of the first broken rule in the order id-prefix, command rank,
\* experienced half on long missions, all active, and succeeds iff no rule is broken.
C2_MissionFirstRuleWins ==
    MissionInBounds =>
        IF MissionBrokenRules(input) = {}
        THEN result.ok
        ELSE /\ Failed
             /\ Len(result.errors) = 1
             /\ result.errors[1].type = "value_error"
             /\ Surfaced = MissionRuleMsg(First(MissionBrokenRules(input)))

\* a 900-day mission of three whose crew has no commander or captain, too few
\* experienced members and an inactive one: rule 2's message is printed
C2_Witness ==
    /\ MissionInBounds
    /\ input.duration_days = 900
    /\ Len(input.crew) = 3
    /\ MissionBrokenRules(input) = {2, 3, 4}
    /\ Surfaced = "Must have at least one Commander or Captain"

\* C3: an AlienContact or SpaceMission with a field out of bounds fails with
\* field-constraint errors that name exactly the fields out of bounds, never with a
\* cross-field rule's error or message, whatever the rules would say.  A crew member
\* out of bounds fails in its own constructor, before the mission's.
C3_FieldErrorsFirst ==
    /\ (op = "AlienContact" /\ ContactBadFields(input) # <<>>) =>
           /\ Failed
           /\ Locs(result.errors) = ContactBadFields(input)
           /\ "value_error" \notin Types(result.errors)
           /\ Surfaced \notin RuleMessages
    /\ (op = "SpaceMission" /\ BadMembers(input.crew) = {} /\ MissionBadFields(input) # <<>>) =>
           /\ Failed
           /\ result.schema = "SpaceMission"
           /\ Locs(result.errors) = MissionBadFields(input)
           /\ "value_error" \notin Types(result.errors)
           /\ Surfaced \notin RuleMessages
    /\ (op = "SpaceMission" /\ BadMembers(input.crew) # {}) =>
           /\ Failed
           /\ result.schema = "CrewMember"
           /\ Locs(result.errors) = MemberBadFields(input.crew[First(BadMembers(input.crew))])
           /\ "value_error" \notin Types(result.errors)
           /\ Surfaced \notin RuleMessages

\* a contact with duration_minutes alone out of range that also breaks a rule
C3_Witness ==
    /\ op = "AlienContact"
    /\ ContactBadFields(input) = <<"duration_minutes">>
    /\ ContactBrokenRules(input) # {}
    /\ Locs(result.errors) = <<"duration_minutes">>
    /\ Failed

ValidStationRecord(r) == StationBadFields(r) = <<>>

ValidContactRecord(r) == ContactBadFields(r) = <<>> /\ ContactRecordBrokenRules(r) = {}

ValidMemberRecord(r) == MemberBadFields(r) = <<>> /\ r.is_active \in BOOLEAN

ValidMissionRecord(r) ==
    /\ MissionBadFields(r) = <<>>
    /\ MissionRecordBrokenRules(r) = {}
    /\ \A k \in 1..Len(r.crew) : ValidMemberRecord(r.crew[k])

\* C4: construction is atomic: a record that exists satisfies every field constraint
\* and every cross-field rule of its schema (and so does each member of a mission's
\* crew); a failed construction leaves no record, only its errors.
C4_ConstructionAtomic ==
    /\ result.ok =>
           /\ Len(result.value) = 1
           /\ result.errors = <<>>
           /\ result.schema = op
           /\ CASE op = "SpaceStation" -> ValidStationRecord(result.value[1])
                [] op = "AlienContact" -> ValidContactRecord(result.value[1])
                [] op = "SpaceMission" -> ValidMissionRecord(result.value[1])
    /\ (~result.ok /\ op \in {"SpaceStation", "AlienContact", "SpaceMission"}) =>
           /\ result.value = <<>>
           /\ result.errors # <<>>
           /\ Len(out) = 3

\* a contact whose fields are all in bounds and whose last rule alone is broken:
\* no record exists
C4_Witness ==
    /\ ContactInBounds
    /\ ContactBrokenRules(input) = {4}
    /\ result.value = <<>>
    /\ ~result.ok

\* C5: an input in bounds that breaks no rule is constructed, and the record's fields
\* are the supplied values, an omitted optional field taking its default
\* (is_operational true, notes absent, is_verified false, message_received absent,
\* mission_status "planned", is_active true).
C5_ValidInputsConstruct ==
    /\ (op = "SpaceStation" /\ StationBadFields(input) = <<>>) =>
           /\ result.ok
           /\ LET r == result.value[1]
              IN  /\ \A f \in {"station_id", "name", "crew_size", "power_level", "oxygen_level",
                               "notes"} : r[f] = input[f]
                  /\ r.is_operational = Supplied(input.is_operational, TRUE)
                  /\ input.last_maintenance # <<>> => r.last_maintenance = input.last_maintenance[1]
    /\ (ContactInBounds /\ ContactBrokenRules(input) = {}) =>
           /\ result.ok
           /\ LET r == result.value[1]
              IN  /\ \A f \in {"contact_id", "location", "contact_type", "signal_strength",
                               "duration_minutes", "witness_count", "message_received"} :
                         r[f] = input[f]
                  /\ r.is_verified = Supplied(input.is_verified, FALSE)
                  /\ input.timestamp # <<>> => r.timestamp = input.timestamp[1]
    /\ (MissionInBounds /\ MissionBrokenRules(input) = {}) =>
           /\ result.ok
           /\ LET r == result.value[1]
              IN  /\ \A f \in {"mission_id", "mission_name", "destination", "duration_days",
                               "budget_millions"} : r[f] = input[f]
                  /\ r.mission_status = Supplied(input.mission_status, "planned")
                  /\ input.lauch_date # <<>> => r.lauch_date = input.lauch_date[1]
                  /\ Len(r.crew) = Len(input.crew)
                  /\ \A k \in 1..Len(r.crew) :
                         /\ \A f \in {"member_id", "name", "rank", "age", "specialization",
                                      "years_experience"} : r.crew[k][f] = input.crew[k][f]
                         /\ r.crew[k].is_active = Supplied(input.crew[k].is_active, TRUE)

\* main's first mission, built with mission_status and every is_active omitted
C5_Witness ==
    /\ MissionInBounds
    /\ input.crew = MainCrew1
    /\ input.mission_status = <<>>
    /\ result.ok
    /\ result.value[1].mission_status = "planned"
    /\ \A k \in 1..3 : result.value[1].crew[k].is_active

\* C6: experience_crew is true iff twice the number of members with more than 5
\* years is at least the crew size (5 years exactly does not count; 1 of 3 is false,
\* 2 of 3 is true, half of an even crew is true).
C6_ExperienceCrewHalf ==
    op = "experience_crew" =>
        /\ out[1] = (2 * Cardinality(Experienced(input)) >= Len(input))
        /\ (Len(input) = 3 /\ Cardinality(Experienced(input)) = 1) => out[1] = FALSE
        /\ (Len(input) = 3 /\ Cardinality(Experienced(input)) = 2) => out[1] = TRUE
        /\ (Len(input) = 4 /\ Cardinality(Experienced(input)) = 2) => out[1] = TRUE

\* a crew of three with one member above 5 years and one at exactly 5: false
C6_Witness ==
    /\ op = "experience_crew"
    /\ Len(input) = 3
    /\ Cardinality(Experienced(input)) = 1
    /\ \E k \in 1..3 : input[k].years_experience = 5
    /\ out[1] = FALSE

\* the phrase the specification gives for d minutes
DurationPhrase(d) ==
    LET H == d \div 60
        M == d % 60
        hourPhrase   == ToString(H) \o (IF H = 1 THEN " hour" ELSE " hours")
        minutePhrase == ToString(M) \o (IF M = 1 THEN " minute" ELSE " minutes")
    IN  CASE d >= 60 /\ M # 0 -> hourPhrase \o " " \o minutePhrase
          [] d >= 60 /\ M = 0 -> hourPhrase
          [] d < 60  /\ M # 0 -> minutePhrase
          [] OTHER            -> ""

\* C7: for d in 1..1440 convert_duration(d) is "H hour(s) [M minute(s)]", H = d div 60,
\* M = d mod 60: hours iff d >= 60, minutes iff M # 0, one space between, a unit
\* singular iff its count is 1.
C7_ConvertDuration ==
    op = "convert_duration" =>
        /\ out[1] = DurationPhrase(input)
        /\ input = 45  => out[1] = "45 minutes"
        /\ input = 60  => out[1] = "1 hour"
        /\ input = 90  => out[1] = "1 hour 30 minutes"
        /\ input = 120 => out[1] = "2 hours"
        /\ input = 1   => out[1] = "1 minute"
        /\ input = 61  => out[1] = "1 hour 1 minute"

C7_Witness == op = "convert_duration" /\ input = 61 /\ out[1] = "1 hour 1 minute"

\* the error of errors that names field f
ErrorAt(errors, f) == errors[CHOOSE k \in 1..Len(errors) : errors[k].loc = f]

\* the message the specification has a failed attempt surface
ExpectedMessage ==
    CASE op = "SpaceStation" -> ErrorAt(result.errors, StationBadFields(input)[1]).msg
      [] op = "AlienContact" ->
            IF ContactBadFields(input) # <<>>
            THEN ErrorAt(result.errors, ContactBadFields(input)[1]).msg
            ELSE ContactRuleMsg(First(ContactBrokenRules(input)))
      [] op = "SpaceMission" ->
            IF BadMembers(input.crew) # {}
            THEN ErrorAt(result.errors, MemberBadFields(input.crew[First(BadMembers(input.crew))])[1]).msg
            ELSE IF MissionBadFields(input) # <<>>
            THEN ErrorAt(result.errors, MissionBadFields(input)[1]).msg
            ELSE MissionRuleMsg(First(MissionBrokenRules(input)))

\* C8: every failed construction surfaces exactly one message: the message of the
\* first field out of bounds in declaration order, or, with every field in bounds,
\* the message of the first broken rule.
C8_OneMessageFirstInOrder ==
    (op \in {"SpaceStation", "AlienContact", "SpaceMission"} /\ ~result.ok) =>
        /\ Len(out) = 3
        /\ Surfaced = ExpectedMessage

\* C9: a physical contact, otherwise valid, built without is_verified fails with
\* "physical contact reports must be verified"; built with is_verified = true it is
\* not rejected by that rule.
C9_PhysicalNeedsVerified ==
    (ContactInBounds /\ StartsWith(input.contact_id, "AC") /\ input.contact_type = "physical") =>
        /\ input.is_verified = <<>> =>
               Failed /\ Surfaced = "physical contact reports must be verified"
        /\ input.is_verified = <<TRUE>> =>
               (result.ok \/ Surfaced # "physical contact reports must be verified")

\* a physical contact that breaks no other rule and omits is_verified
C9_Witness ==
    /\ ContactInBounds
    /\ input.contact_type = "physical"
    /\ input.is_verified = <<>>
    /\ ContactBrokenRules(input) = {2}
    /\ Surfaced = "physical contact reports must be verified"

\* C10: for a valid SpaceStation the printed lines are ID, Name, Crew, Power, Oxygen
\* with the record's values, then "Status: Operational" when is_operational is true
\* and "Status: Non Operational" when it is false.
C10_StationStatusLine ==
    (op = "SpaceStation" /\ result.ok) =>
        LET r == result.value[1]
        IN  /\ Len(out) = 8
            /\ out[3] = "ID: " \o r.station_id
            /\ out[4] = "Name: " \o r.name
            /\ out[5] = "Crew: " \o ToString(r.crew_size)
            /\ out[6] = "Power: " \o FloatStr(r.power_level)
            /\ out[7] = "Oxygen: " \o FloatStr(r.oxygen_level)
            /\ out[8] = (IF r.is_operational THEN "Status: Operational"
                         ELSE "Status: Non Operational")

====
